---- MODULE Spec2Model ----
(***************************************************************************)
(* Model of twitter_downloader.py: the dependency bootstrap, the URL       *)
(* validator, the download and info operations and the interactive/batch   *)
(* driver.  Text is a sequence of one-character strings, so that strip(),  *)
(* lower() and the regular expression are computed character by character. *)
(***************************************************************************)
EXTENDS Naturals, Sequences, FiniteSets

VARIABLES
    argv,        \* sys.argv (argv[1] is the program name)
    importable,  \* whether `import yt_dlp` succeeds
    fs,          \* the filesystem: path -> "absent" | "dir" | "file"
    pc,          \* where the process is
    raised,      \* the uncaught exception that ended the process, or "none"
    everMenu,    \* menu_interactivo() has been entered
    opcion,      \* menu_interactivo: opcion
    url,         \* menu_interactivo: url
    cal_opcion,  \* menu_interactivo: cal_opcion
    calidad,     \* menu_interactivo: calidad
    carpeta,     \* menu_interactivo: carpeta
    urls,        \* menu_interactivo: urls
    i,           \* menu_interactivo: the batch loop's i
    lines,       \* the raw lines the current batch collection read before the sentinel
    checked,     \* the calls of es_url_valida since the last selection, with their results
    desc_calls,  \* the calls of descargar_video since the last selection
    dep_calls,   \* the calls of YoutubeDL.extract_info since the last selection
    out,         \* what was printed since the last selection
    s,           \* the validator's input (SpecValidator)
    verdict      \* the validator's result (SpecValidator)

vars == <<argv, importable, fs, pc, raised, everMenu, opcion, url,
          cal_opcion, calidad, carpeta, urls, i, lines, checked, desc_calls,
          dep_calls, out, s, verdict>>

progVars == <<argv, importable, fs, pc, raised, everMenu, opcion, url,
              cal_opcion, calidad, carpeta, urls, i, lines, checked, desc_calls,
              dep_calls, out>>

----------------------------------------------------------------------------
(* Text *)

Whitespace == {" ", "\t", "\n"}

UpperCase == <<"A", "B", "C", "D", "E", "F", "G", "H", "I", "J", "K", "L", "M", "N", "O", "P", "Q", "R", "S", "T", "U", "V", "W", "X", "Y", "Z">>
LowerCase == <<"a", "b", "c", "d", "e", "f", "g", "h", "i", "j", "k", "l", "m", "n", "o", "p", "q", "r", "s", "t", "u", "v", "w", "x", "y", "z">>

\* the lower-case letter of each upper-case letter
LowerOf ==
    [c \in {UpperCase[k] : k \in 1..Len(UpperCase)} |->
        LowerCase[CHOOSE k \in 1..Len(UpperCase) : UpperCase[k] = c]]

\* str.lower() on one character
LowerChar(c) == IF c \in DOMAIN LowerOf THEN LowerOf[c] ELSE c

\* str.lower()
Lower(t) == [k \in 1..Len(t) |-> LowerChar(t[k])]

\* str.lstrip(): drops the leading whitespace
RECURSIVE LStrip(_)
LStrip(t) ==
    IF t # <<>> /\ Head(t) \in Whitespace THEN LStrip(Tail(t)) ELSE t

\* str.rstrip(): drops the trailing whitespace
RECURSIVE RStrip(_)
RStrip(t) ==
    IF t # <<>> /\ t[Len(t)] \in Whitespace THEN RStrip(SubSeq(t, 1, Len(t) - 1)) ELSE t

\* str.strip(): drops the whitespace at both ends
Strip(t) == RStrip(LStrip(t))

----------------------------------------------------------------------------
(* es_url_valida: re.match of                                              *)
(*   https?://(www\.)?(twitter\.com|x\.com)/.+/status/\d+                  *)
(* A set of positions is the set of offsets at which a match of the        *)
(* pattern read so far can end; re.match starts at offset 0.               *)

IsDigit(c) == c \in {"0", "1", "2", "3", "4", "5", "6", "7", "8", "9"}

\* t continues with the literal lit right after offset p
HasAt(t, p, lit) ==
    /\ p + Len(lit) <= Len(t)
    /\ SubSeq(t, p + 1, p + Len(lit)) = lit

\* a literal
Lit(t, P, lit) == {p + Len(lit) : p \in {q \in P : HasAt(t, q, lit)}}

\* (lit)?
Opt(t, P, lit) == P \cup Lit(t, P, lit)

\* (a|b)
Alt(t, P, a, b) == Lit(t, P, a) \cup Lit(t, P, b)

\* the dot matches everything but a newline
IsDot(c) == c # "\n"

\* the offset at which the longest run of dots from offset p ends
RECURSIVE DotRun(_, _)
DotRun(t, p) == IF p < Len(t) /\ IsDot(t[p + 1]) THEN DotRun(t, p + 1) ELSE p

\* the offset at which the longest run of digits from offset p ends
RECURSIVE DigitRun(_, _)
DigitRun(t, p) == IF p < Len(t) /\ IsDigit(t[p + 1]) THEN DigitRun(t, p + 1) ELSE p

\* .+  (one character of the run or more: backtracking gives up any suffix)
DotPlus(t, P) == UNION {(p + 1)..DotRun(t, p) : p \in P}

\* \d+
DigitPlus(t, P) == UNION {(p + 1)..DigitRun(t, p) : p \in P}

\* re.match(patron, url): the offsets at which a match from offset 0 can end
MatchEnds(t) ==
    LET p1 == Lit(t, {0}, <<"h", "t", "t", "p">>)
        p2 == Opt(t, p1, <<"s">>)
        p3 == Lit(t, p2, <<":", "/", "/">>)
        p4 == Opt(t, p3, <<"w", "w", "w", ".">>)
        p5 == Alt(t, p4, <<"t", "w", "i", "t", "t", "e", "r", ".", "c", "o", "m">>, <<"x", ".", "c", "o", "m">>)
        p6 == Lit(t, p5, <<"/">>)
        p7 == DotPlus(t, p6)
        p8 == Lit(t, p7, <<"/", "s", "t", "a", "t", "u", "s", "/">>)
    IN  DigitPlus(t, p8)

\* re.search instead of re.match: the pattern may start at any offset
MatchEndsUnanchored(t) ==
    LET p1 == Lit(t, 0..Len(t), <<"h", "t", "t", "p">>)
        p2 == Opt(t, p1, <<"s">>)
        p3 == Lit(t, p2, <<":", "/", "/">>)
        p4 == Opt(t, p3, <<"w", "w", "w", ".">>)
        p5 == Alt(t, p4, <<"t", "w", "i", "t", "t", "e", "r", ".", "c", "o", "m">>, <<"x", ".", "c", "o", "m">>)
        p6 == Lit(t, p5, <<"/">>)
        p7 == DotPlus(t, p6)
        p8 == Lit(t, p7, <<"/", "s", "t", "a", "t", "u", "s", "/">>)
    IN  DigitPlus(t, p8)

es_url_valida_search(t) == MatchEndsUnanchored(t) # {}

es_url_valida(t) == MatchEnds(t) # {}

----------------------------------------------------------------------------
(* The validator on its own: every input of ValidatorInputs is validated.  *)

Schemes  == {<<"h", "t", "t", "p">>, <<"h", "t", "t", "p", "s">>, <<"h", "t", "p", "s">>, <<"H", "T", "T", "P", "S">>, <<" ", "h", "t", "t", "p", "s">>, <<"x", "h", "t", "t", "p", "s">>}
Wwws     == {<<>>, <<"w", "w", "w", ".">>, <<"w", "w", "w", "x">>, <<"m", ".">>}
Hosts    == {<<"t", "w", "i", "t", "t", "e", "r", ".", "c", "o", "m">>, <<"x", ".", "c", "o", "m">>, <<"e", "x", "a", "m", "p", "l", "e", ".", "c", "o", "m">>, <<"x", "x", "c", "o", "m">>, <<"t", "w", "i", "t", "t", "e", "r", ".", "c", "o">>}
Middles  == {<<>>, <<"/">>, <<"/", "u", "s", "e", "r">>, <<"/", "/">>, <<"/", "a", "/", "s", "t", "a", "t", "u", "s", "/", "x">>, <<"/", "u", "\n", "v">>, <<"/", "\n">>}
Statuses == {<<"/", "s", "t", "a", "t", "u", "s", "/">>, <<"/", "s", "t", "a", "t", "u", "s", "e", "s", "/">>, <<"/", "S", "t", "a", "t", "u", "s", "/">>, <<"/", "s", "t", "a", "t", "u", "s">>}
Ids      == {<<>>, <<"1">>, <<"1", "2", "3", "4", "5">>, <<"9", "9", "9">>, <<"a", "b", "c">>, <<"x", "1">>, <<"1", "x">>}
Tails    == {<<>>, <<"?", "s", "=", "2", "0">>, <<"/", "p", "h", "o", "t", "o", "/", "1">>, <<"\n">>}

ValidatorInputs ==
    {sc \o <<":", "/", "/">> \o w \o h \o m \o st \o d \o tl :
        sc \in Schemes, w \in Wwws, h \in Hosts, m \in Middles,
        st \in Statuses, d \in Ids, tl \in Tails}

----------------------------------------------------------------------------
(* Literals of the program *)

BEST     == <<"b", "e", "s", "t">>
WORST    == <<"w", "o", "r", "s", "t">>
Q720     == <<"7", "2", "0">>
Q480     == <<"4", "8", "0">>
Q360     == <<"3", "6", "0">>
F720     == <<"b", "e", "s", "t", "[", "h", "e", "i", "g", "h", "t", "<", "=", "7", "2", "0", "]">>
F480     == <<"b", "e", "s", "t", "[", "h", "e", "i", "g", "h", "t", "<", "=", "4", "8", "0", "]">>
F360     == <<"b", "e", "s", "t", "[", "h", "e", "i", "g", "h", "t", "<", "=", "3", "6", "0", "]">>
LISTO    == <<"l", "i", "s", "t", "o">>
DESCARGAS_TWITTER == <<"d", "e", "s", "c", "a", "r", "g", "a", "s", "_", "t", "w", "i", "t", "t", "e", "r">>
NOMBRE   == <<"/", "u", "p", "l", "o", "a", "d", "e", "r", "_", "i", "d", ".", "e", "x", "t">>
None     == <<>>

----------------------------------------------------------------------------
(* The filesystem under the working directory *)

FsPaths == {DESCARGAS_TWITTER, <<"d">>, <<"d", "/", "e">>}

\* the working directory itself is <<>>
Kind(f, p) == IF p = <<>> THEN "dir" ELSE f[p]

\* Path.parent
Parent(p) ==
    LET sl == {k \in 1..Len(p) : p[k] = "/"}
    IN  IF sl = {} THEN <<>>
        ELSE SubSeq(p, 1, (CHOOSE k \in sl : \A m \in sl : k >= m) - 1)

\* os.mkdir(p)
os_mkdir(f, p) ==
    IF Kind(f, p) # "absent" THEN [fs |-> f, err |-> "FileExistsError"]
    ELSE IF Kind(f, Parent(p)) = "absent" THEN [fs |-> f, err |-> "FileNotFoundError"]
    ELSE IF Kind(f, Parent(p)) = "file" THEN [fs |-> f, err |-> "NotADirectoryError"]
    ELSE [fs |-> [f EXCEPT ![p] = "dir"], err |-> "none"]

\* Path(p).mkdir(parents, exist_ok)
RECURSIVE PathMkdir(_, _, _, _)
PathMkdir(f, p, parents, exist_ok) ==
    LET r == os_mkdir(f, p)
    IN  IF r.err = "none" THEN r
        ELSE IF r.err = "FileNotFoundError"
        THEN IF ~parents \/ Parent(p) = p THEN r
             ELSE LET up == PathMkdir(f, Parent(p), TRUE, TRUE)
                  IN  IF up.err # "none" THEN up
                      ELSE PathMkdir(up.fs, p, FALSE, exist_ok)
        ELSE IF ~exist_ok \/ Kind(f, p) # "dir" THEN r
             ELSE [fs |-> f, err |-> "none"]

\* mkdir(parents=True) without exist_ok
Mkdir_sin_exist_ok(f, p) == PathMkdir(f, p, TRUE, FALSE)

\* descargar_video: Path(carpeta_destino).mkdir(parents=True, exist_ok=True)
Mkdir(f, p) == PathMkdir(f, p, TRUE, TRUE)

----------------------------------------------------------------------------
(* descargar_video and obtener_info *)

\* the format map without its default: the selector is handed on as it is
Formato_sin_defecto(cal) ==
    CASE cal = BEST  -> BEST
      [] cal = WORST -> WORST
      [] cal = Q720  -> F720
      [] cal = Q480  -> F480
      [] cal = Q360  -> F360
      [] OTHER       -> cal

\* descargar_video: formato = {...}.get(calidad, "best")
Formato(cal) ==
    CASE cal = BEST  -> BEST
      [] cal = WORST -> WORST
      [] cal = Q720  -> F720
      [] cal = Q480  -> F480
      [] cal = Q360  -> F360
      [] OTHER       -> BEST

\* what extract_info can do
Outcomes == {"ok", "DownloadError", "Exception"}

\* descargar_video(u, carp, cal) on filesystem f, the extraction ending as
\* outcome: the filesystem left, the exception that escapes, the value
\* returned, what is printed and the calls of the dependency
descargar_video(f, imp, u, carp, cal, outcome) ==
    IF ~imp
    THEN [fs |-> f, raised |-> "ImportError", ret |-> None, out |-> <<>>, dep |-> <<>>]
    ELSE LET mk == Mkdir(f, carp)
         IN  IF mk.err # "none"
             THEN [fs |-> mk.fs, raised |-> mk.err, ret |-> None, out |-> <<>>,
                   dep |-> <<>>]
             ELSE [fs     |-> mk.fs,
                   raised |-> "none",
                   ret    |-> IF outcome = "ok" THEN carp \o NOMBRE ELSE None,
                   out    |-> <<"descargando">> \o
                              (CASE outcome = "ok" -> <<"descargado">>
                                 [] outcome = "DownloadError" -> <<"error_descarga">>
                                 [] OTHER -> <<"error_inesperado">>),
                   dep    |-> <<[op |-> "download", url |-> u,
                                 formato |-> Formato(cal), outdir |-> carp]>>]

\* the record of one call of descargar_video
Llamada(f, u, carp, cal, r) ==
    [url |-> u, carpeta |-> carp, calidad |-> cal, before |-> Kind(f, carp),
     raised |-> r.raised, ret |-> r.ret]

\* obtener_info(u): every exception is caught
obtener_info(imp, u, outcome) ==
    IF ~imp
    THEN [raised |-> "ImportError", out |-> <<>>, dep |-> <<>>]
    ELSE [raised |-> "none",
          out    |-> <<"obteniendo_info">> \o
                     (IF outcome = "ok" THEN <<"info">> ELSE <<"error_info">>),
          dep    |-> <<[op |-> "info", url |-> u, formato |-> None,
                        outdir |-> None]>>]

----------------------------------------------------------------------------
(* What the user and the environment can supply *)

MaxLines == 3    \* lines before the sentinel in one batch collection

URL_OK1  == <<"h", "t", "t", "p", "s", ":", "/", "/", "x", ".", "c", "o", "m", "/", "u", "/", "s", "t", "a", "t", "u", "s", "/", "1">>
URL_OK2  == <<" ", "h", "t", "t", "p", "s", ":", "/", "/", "w", "w", "w", ".", "t", "w", "i", "t", "t", "e", "r", ".", "c", "o", "m", "/", "u", "/", "s", "t", "a", "t", "u", "s", "/", "2", "2", " ">>
URL_BAD  == <<"h", "t", "t", "p", "s", ":", "/", "/", "e", "x", "a", "m", "p", "l", "e", ".", "c", "o", "m", "/", "s", "t", "a", "t", "u", "s", "/", "1">>
BLANK    == <<" ">>
PROG     == <<"t", "w", "i", "t", "t", "e", "r", "_", "d", "o", "w", "n", "l", "o", "a", "d", "e", "r", ".", "p", "y">>

OpcionInputs    == {<<"0">>, <<"1">>, <<"2">>, <<"3">>, <<" ", "1", " ">>, <<"9">>, <<>>}
UrlInputs       == {URL_OK1, URL_OK2, URL_BAD, BLANK}
CalOpcionInputs == {<<>>, <<"1">>, <<"2">>, <<"3">>, <<"4">>, <<"5">>, <<" ", "2", " ">>, <<"6">>, <<"7", "2", "0">>}
CarpetaInputs   == {<<>>, <<" ", "d", " ">>, <<"d", "/", "e">>}
SentinelInputs  == {<<"l", "i", "s", "t", "o">>, <<" ", "L", "I", "S", "T", "O", " ">>}
BatchInputs     == UrlInputs \cup SentinelInputs
CliCarpetas     == {<<"d">>, <<"d", "/", "e">>}
CliCalidades    == {BEST, WORST, Q720, Q480, Q360, <<"1", "0", "8", "0">>, <<" ", "7", "2", "0">>}
ArgvInputs ==
    {<<PROG>>}
    \cup {<<PROG, u>> : u \in UrlInputs}
    \cup {<<PROG, u, c>> : u \in UrlInputs, c \in CliCarpetas}
    \cup {<<PROG, u, c, q>> : u \in UrlInputs, c \in CliCarpetas, q \in CliCalidades}

\* the filesystems the program can start on: a name is absent or taken by a
\* regular file; directories appear as the program creates them
FsInputs ==
    {f \in [FsPaths -> {"absent", "file"}] : f[<<"d", "/", "e">>] = "absent"}

----------------------------------------------------------------------------
(* The program *)

\* one call of es_url_valida and what it returned
Validacion(u) == [url |-> u, ok |-> es_url_valida(u)]

Init ==
    /\ argv \in ArgvInputs
    /\ importable \in BOOLEAN
    /\ fs \in FsInputs
    /\ pc = "start"
    /\ raised = "none"
    /\ everMenu = FALSE
    /\ opcion = None /\ url = None /\ cal_opcion = None /\ calidad = None
    /\ carpeta = None /\ urls = <<>> /\ i = 0
    /\ lines = <<>> /\ checked = <<>> /\ desc_calls = <<>> /\ dep_calls = <<>>
    /\ out = <<>>
    /\ s = <<>> /\ verdict = "unset"

\* instalar_ytdlp with the installer's failure swallowed
Bootstrap_sin_fallo ==
    /\ pc = "start"
    /\ \/ /\ importable
          /\ pc' = "main"
          /\ UNCHANGED <<importable, out, raised>>
       \/ /\ ~importable
          /\ raised' = raised
          /\ pc' = "main"
          /\ \E ok \in BOOLEAN :
                IF ok
                THEN importable' = TRUE /\ out' = out \o <<"instalando", "instalado">>
                ELSE importable' = importable /\ out' = out \o <<"instalando">>
    /\ UNCHANGED <<argv, fs, everMenu, opcion, url, cal_opcion, calidad, carpeta,
                   urls, i, lines, checked, desc_calls, dep_calls, s, verdict>>

\* main: instalar_ytdlp()
Bootstrap ==
    /\ pc = "start"
    /\ \/ /\ importable
          /\ pc' = "main"
          /\ UNCHANGED <<importable, out, raised>>
       \/ /\ ~importable
          /\ \E ok \in BOOLEAN :
                IF ok
                THEN /\ importable' = TRUE
                     /\ out' = out \o <<"instalando", "instalado">>
                     /\ pc' = "main"
                     /\ raised' = raised
                ELSE /\ importable' = importable
                     /\ out' = out \o <<"instalando">>
                     /\ pc' = "crashed"
                     /\ raised' = "CalledProcessError"
    /\ UNCHANGED <<argv, fs, everMenu, opcion, url, cal_opcion, calidad, carpeta,
                   urls, i, lines, checked, desc_calls, dep_calls, s, verdict>>

\* main with the menu entered after the one-shot download as well
MainCli_luego_menu ==
    /\ pc = "main"
    /\ Len(argv) > 1
    /\ url' = argv[2]
    /\ carpeta' = IF Len(argv) > 2 THEN argv[3] ELSE DESCARGAS_TWITTER
    /\ calidad' = IF Len(argv) > 3 THEN argv[4] ELSE BEST
    /\ checked' = Append(checked, Validacion(url'))
    /\ IF checked'[Len(checked')].ok
       THEN \E outcome \in Outcomes :
              LET r == descargar_video(fs, importable, url', carpeta', calidad', outcome)
              IN  /\ fs' = r.fs
                  /\ desc_calls' = Append(desc_calls, Llamada(fs, url', carpeta', calidad', r))
                  /\ dep_calls' = dep_calls \o r.dep
                  /\ out' = out \o r.out
                  /\ raised' = r.raised
                  /\ pc' = IF r.raised = "none" THEN "menu" ELSE "crashed"
       ELSE /\ out' = Append(out, "uso")
            /\ pc' = "menu"
            /\ UNCHANGED <<fs, desc_calls, dep_calls, raised>>
    /\ everMenu' = (pc' = "menu")
    /\ UNCHANGED <<argv, importable, opcion, cal_opcion, urls, i,
                   lines, s, verdict>>

\* main: a URL among the arguments, one download and the process ends
MainCli ==
    /\ pc = "main"
    /\ Len(argv) > 1
    /\ url' = argv[2]
    /\ carpeta' = IF Len(argv) > 2 THEN argv[3] ELSE DESCARGAS_TWITTER
    /\ calidad' = IF Len(argv) > 3 THEN argv[4] ELSE BEST
    /\ checked' = Append(checked, Validacion(url'))
    /\ IF checked'[Len(checked')].ok
       THEN \E outcome \in Outcomes :
              LET r == descargar_video(fs, importable, url', carpeta', calidad', outcome)
              IN  /\ fs' = r.fs
                  /\ desc_calls' = Append(desc_calls, Llamada(fs, url', carpeta', calidad', r))
                  /\ dep_calls' = dep_calls \o r.dep
                  /\ out' = out \o r.out
                  /\ raised' = r.raised
                  /\ pc' = IF r.raised = "none" THEN "exit" ELSE "crashed"
       ELSE /\ out' = Append(out, "uso")
            /\ pc' = "exit"
            /\ UNCHANGED <<fs, desc_calls, dep_calls, raised>>
    /\ UNCHANGED <<argv, importable, everMenu, opcion, cal_opcion, urls, i,
                   lines, s, verdict>>

\* main: no URL among the arguments, menu_interactivo() is entered
MainMenu ==
    /\ pc = "main"
    /\ Len(argv) <= 1
    /\ everMenu' = TRUE
    /\ out' = Append(out, "banner")
    /\ pc' = "menu"
    /\ UNCHANGED <<argv, importable, fs, raised, opcion, url, cal_opcion,
                   calidad, carpeta, urls, i, lines, checked, desc_calls, dep_calls,
                   s, verdict>>

\* menu_interactivo: the menu is printed and a selection read.  The locals of
\* the loop body are dead here (every branch assigns them before reading
\* them) and the histories restart with the selection.
MenuOpcion ==
    /\ pc = "menu"
    /\ \E line \in OpcionInputs :
          /\ opcion' = Strip(line)
          /\ CASE opcion' = <<"0">> -> pc' = "exit" /\ out' = <<"menu", "hasta_luego">>
               [] opcion' = <<"1">> -> pc' = "m1_url" /\ out' = <<"menu">>
               [] opcion' = <<"2">> -> pc' = "m2_url" /\ out' = <<"menu">>
               [] opcion' = <<"3">> -> pc' = "batch_collect" /\ out' = <<"menu", "ingresa_urls">>
               [] OTHER -> pc' = "menu" /\ out' = <<"menu", "opcion_no_valida">>
    /\ url' = None /\ cal_opcion' = None /\ calidad' = None /\ carpeta' = None
    /\ urls' = <<>> /\ i' = 0
    /\ lines' = <<>> /\ checked' = <<>> /\ desc_calls' = <<>> /\ dep_calls' = <<>>
    /\ UNCHANGED <<argv, importable, fs, raised, everMenu, s, verdict>>

\* option 1: the URL is read and validated
M1Url ==
    /\ pc = "m1_url"
    /\ \E line \in UrlInputs :
          /\ url' = Strip(line)
          /\ checked' = Append(checked, Validacion(url'))
          /\ IF checked'[Len(checked')].ok
             THEN pc' = "m1_calidad" /\ out' = out
             ELSE pc' = "menu" /\ out' = Append(out, "url_no_twitter")
    /\ UNCHANGED <<argv, importable, fs, raised, everMenu, opcion,
                   cal_opcion, calidad, carpeta, urls, i, lines, desc_calls,
                   dep_calls, s, verdict>>

\* option 1: calidades.get(cal_opcion, "best")
CalidadDe(c) ==
    CASE c = <<"1">> -> BEST
      [] c = <<"2">> -> Q720
      [] c = <<"3">> -> Q480
      [] c = <<"4">> -> Q360
      [] c = <<"5">> -> WORST
      [] OTHER     -> BEST

\* option 1: the quality choice is read
M1Calidad ==
    /\ pc = "m1_calidad"
    /\ \E line \in CalOpcionInputs :
          /\ cal_opcion' = Strip(line)
          /\ calidad' = CalidadDe(cal_opcion')
    /\ pc' = "m1_carpeta"
    /\ UNCHANGED <<argv, importable, fs, raised, everMenu, opcion, url,
                   carpeta, urls, i, lines, checked, desc_calls, dep_calls, out,
                   s, verdict>>

\* input(...).strip() or "descargas_twitter"
CarpetaDe(line) == IF Strip(line) = <<>> THEN DESCARGAS_TWITTER ELSE Strip(line)

\* option 1: the destination is read and the video downloaded
M1Carpeta ==
    /\ pc = "m1_carpeta"
    /\ \E line \in CarpetaInputs, outcome \in Outcomes :
          /\ carpeta' = CarpetaDe(line)
          /\ LET r == descargar_video(fs, importable, url, carpeta', calidad, outcome)
             IN  /\ fs' = r.fs
                 /\ desc_calls' = Append(desc_calls, Llamada(fs, url, carpeta', calidad, r))
                 /\ dep_calls' = dep_calls \o r.dep
                 /\ out' = out \o r.out
                 /\ raised' = r.raised
                 /\ pc' = IF r.raised = "none" THEN "menu" ELSE "crashed"
    /\ UNCHANGED <<argv, importable, everMenu, opcion, url, cal_opcion,
                   calidad, urls, i, lines, checked, s, verdict>>

\* option 2 without the validation
M2Url_sin_validar ==
    /\ pc = "m2_url"
    /\ \E line \in UrlInputs, outcome \in {"ok", "Exception"} :
          /\ url' = Strip(line)
          /\ checked' = checked
          /\ LET r == obtener_info(importable, url', outcome)
             IN  /\ dep_calls' = dep_calls \o r.dep
                 /\ out' = out \o r.out
                 /\ raised' = r.raised
                 /\ pc' = IF r.raised = "none" THEN "menu" ELSE "crashed"
    /\ UNCHANGED <<argv, importable, fs, everMenu, opcion, cal_opcion,
                   calidad, carpeta, urls, i, lines, desc_calls, s, verdict>>

\* option 2: the URL is read and validated, and the information shown
M2Url ==
    /\ pc = "m2_url"
    /\ \E line \in UrlInputs, outcome \in {"ok", "Exception"} :
          /\ url' = Strip(line)
          /\ checked' = Append(checked, Validacion(url'))
          /\ IF checked'[Len(checked')].ok
             THEN LET r == obtener_info(importable, url', outcome)
                  IN  /\ dep_calls' = dep_calls \o r.dep
                      /\ out' = out \o r.out
                      /\ raised' = r.raised
                      /\ pc' = IF r.raised = "none" THEN "menu" ELSE "crashed"
             ELSE /\ out' = Append(out, "url_no_twitter")
                  /\ pc' = "menu"
                  /\ UNCHANGED <<dep_calls, raised>>
    /\ UNCHANGED <<argv, importable, fs, everMenu, opcion, cal_opcion,
                   calidad, carpeta, urls, i, lines, desc_calls, s, verdict>>

\* url.lower() == "listo"
EsCentinela(u) == Lower(u) = LISTO

\* option 3, one line, with the notice printed for an empty line as well
BatchLine_else ==
    /\ pc = "batch_collect"
    /\ \E line \in BatchInputs :
          /\ url' = Strip(line)
          /\ IF EsCentinela(url')
             THEN /\ UNCHANGED <<urls, checked, lines>>
                  /\ IF urls = <<>>
                     THEN out' = Append(out, "sin_urls") /\ pc' = "menu"
                     ELSE out' = out /\ pc' = "batch_carpeta"
             ELSE /\ Len(lines) < MaxLines
                  /\ lines' = Append(lines, line)
                  /\ checked' = Append(checked, Validacion(url'))
                  /\ pc' = pc
                  /\ IF checked'[Len(checked')].ok
                     THEN urls' = Append(urls, url') /\ out' = out
                     ELSE urls' = urls /\ out' = Append(out, "omitida")
    /\ UNCHANGED <<argv, importable, fs, raised, everMenu, opcion,
                   cal_opcion, calidad, carpeta, i, desc_calls, dep_calls, s, verdict>>

\* option 3: one line of the collection loop
BatchLine ==
    /\ pc = "batch_collect"
    /\ \E line \in BatchInputs :
          /\ url' = Strip(line)
          /\ IF EsCentinela(url')
             THEN /\ UNCHANGED <<urls, checked, lines>>
                  /\ IF urls = <<>>
                     THEN out' = Append(out, "sin_urls") /\ pc' = "menu"
                     ELSE out' = out /\ pc' = "batch_carpeta"
             ELSE /\ Len(lines) < MaxLines
                  /\ lines' = Append(lines, line)
                  /\ checked' = Append(checked, Validacion(url'))
                  /\ pc' = pc
                  /\ IF checked'[Len(checked')].ok
                     THEN urls' = Append(urls, url') /\ out' = out
                     ELSE /\ urls' = urls
                          /\ out' = IF url' # <<>> THEN Append(out, "omitida") ELSE out
    /\ UNCHANGED <<argv, importable, fs, raised, everMenu, opcion,
                   cal_opcion, calidad, carpeta, i, desc_calls, dep_calls, s, verdict>>

\* option 3: the destination is read
BatchCarpeta ==
    /\ pc = "batch_carpeta"
    /\ \E line \in CarpetaInputs : carpeta' = CarpetaDe(line)
    /\ out' = Append(out, "descargando_n")
    /\ i' = 1
    /\ pc' = "batch_loop"
    /\ UNCHANGED <<argv, importable, fs, raised, everMenu, opcion, url,
                   cal_opcion, calidad, urls, lines, checked, desc_calls, dep_calls,
                   s, verdict>>

\* option 3: one iteration of  for i, url in enumerate(urls, 1)
BatchStep ==
    /\ pc = "batch_loop"
    /\ i <= Len(urls)
    /\ url' = urls[i]
    /\ \E outcome \in Outcomes :
          LET r == descargar_video(fs, importable, urls[i], carpeta, BEST, outcome)
          IN  /\ fs' = r.fs
              /\ desc_calls' = Append(desc_calls, Llamada(fs, urls[i], carpeta, BEST, r))
              /\ dep_calls' = dep_calls \o r.dep
              /\ out' = Append(out, "progreso") \o r.out
              /\ raised' = r.raised
              /\ IF r.raised # "none" THEN pc' = "crashed" /\ i' = i
                 ELSE IF i = Len(urls) THEN pc' = "menu" /\ i' = i
                 ELSE pc' = pc /\ i' = i + 1
    /\ UNCHANGED <<argv, importable, everMenu, opcion, cal_opcion,
                   calidad, carpeta, urls, lines, checked, s, verdict>>

Next ==
    \/ Bootstrap
    \/ MainCli
    \/ MainMenu
    \/ MenuOpcion
    \/ M1Url
    \/ M1Calidad
    \/ M1Carpeta
    \/ M2Url
    \/ BatchLine
    \/ BatchCarpeta
    \/ BatchStep

Spec == Init /\ [][Next]_vars

----------------------------------------------------------------------------
(* The validator on its own *)

InitValidator ==
    /\ s \in ValidatorInputs
    /\ verdict = "unset"
    /\ argv = <<PROG>>
    /\ importable = TRUE
    /\ fs = [p \in FsPaths |-> "absent"]
    /\ pc = "validator"
    /\ raised = "none"
    /\ everMenu = FALSE
    /\ opcion = None /\ url = None /\ cal_opcion = None /\ calidad = None
    /\ carpeta = None /\ urls = <<>> /\ i = 0
    /\ lines = <<>> /\ checked = <<>> /\ desc_calls = <<>> /\ dep_calls = <<>>
    /\ out = <<>>

\* bool(re.match(patron, url))
Validate ==
    /\ pc = "validator"
    /\ verdict = "unset"
    /\ verdict' = IF es_url_valida(s) THEN "True" ELSE "False"
    /\ UNCHANGED <<s, progVars>>

NextValidator == Validate

SpecValidator == InitValidator /\ [][NextValidator]_vars

----------------------------------------------------------------------------
(* Properties *)

Cli == Len(argv) > 1

Count(sq, x) == Cardinality({k \in DOMAIN sq : sq[k] = x})

Range(sq) == {sq[k] : k \in DOMAIN sq}

\* the lines of the collection, trimmed as the loop trims them
Trimmed(ls) == [k \in DOMAIN ls |-> Strip(ls[k])]

\* the strings among sq that passed the validator, in order
Passed(sq) == LET ok == SelectSeq(sq, LAMBDA c : c.ok) IN [k \in DOMAIN ok |-> ok[k].url]

\* the strings handed to the validator, in order
Asked(sq) == [k \in DOMAIN sq |-> sq[k].url]

\* the URLs of the calls of descargar_video, in order
Attempted(cs) == [k \in DOMAIN cs |-> cs[k].url]

Downloads == {k \in DOMAIN dep_calls : dep_calls[k].op = "download"}

\* C1: on every path (options 1, 2, 3 and the one-shot path) each URL handed
\* to descargar_video, to obtener_info or to the dependency is one the program
\* has passed to es_url_valida and for which es_url_valida returned true.
C1_OnlyValidatedUrls ==
    /\ \A k \in DOMAIN desc_calls : [url |-> desc_calls[k].url, ok |-> TRUE] \in Range(checked)
    /\ \A k \in DOMAIN dep_calls : [url |-> dep_calls[k].url, ok |-> TRUE] \in Range(checked)
    /\ \A k \in DOMAIN checked : checked[k].ok = es_url_valida(checked[k].url)

\* option 2 has reached the dependency's info call with the URL the
\* validator has just accepted
C1_Witness ==
    /\ opcion = <<"2">>
    /\ Len(dep_calls) = 1
    /\ dep_calls[1].op = "info"
    /\ checked = <<[url |-> url, ok |-> TRUE]>>

\* C2 (as stated): no call of descargar_video is made before the sentinel is
\* read, and once the batch is over the URLs attempted are exactly the lines
\* that pass the validator, in input order, one attempt each.
C2_Original ==
    /\ pc \in {"batch_collect", "batch_carpeta"} => desc_calls = <<>>
    /\ (opcion = <<"3">> /\ pc \in {"menu", "exit", "crashed"}) =>
          /\ Asked(checked) = Trimmed(lines)
          /\ Attempted(desc_calls) = Passed(checked)

\* C3 (as stated): in a batch no failure of descargar_video escapes it, each
\* failed call returns None with a diagnostic printed, and once the batch is
\* over there are as many attempts as collected URLs.
C3_Original ==
    opcion = <<"3">> =>
       /\ \A k \in DOMAIN desc_calls : desc_calls[k].raised = "none"
       /\ Count(out, "error_descarga") + Count(out, "error_inesperado")
             = Cardinality({k \in DOMAIN desc_calls : desc_calls[k].ret = None})
       /\ pc \notin {"batch_collect", "batch_carpeta", "batch_loop"} =>
             Len(desc_calls) = Len(urls)

\* C4 (as stated): once the menu is entered the process ends only through
\* the selection "0"; no failure of a validation, a download or an info call
\* ends it.
C4_Original ==
    everMenu =>
       /\ pc # "crashed"
       /\ raised = "none"
       /\ pc = "exit" => opcion = <<"0">>

\* C5: with a URL among the arguments the menu is never entered; once the
\* bootstrap is done the driver makes exactly one call of descargar_video if
\* the URL is valid (destination descargas_twitter and quality best when those
\* arguments are absent), and no call but a usage diagnostic if it is not, and
\* the process ends; without a URL argument the menu is entered.
C5_OneShot ==
    /\ everMenu => ~Cli
    /\ Cli => pc \in {"start", "main", "exit", "crashed"}
    /\ (Cli /\ pc \in {"exit", "crashed"} /\ raised # "CalledProcessError") =>
          IF es_url_valida(argv[2])
          THEN /\ Len(desc_calls) = 1
               /\ desc_calls[1].url = argv[2]
               /\ desc_calls[1].carpeta =
                     (IF Len(argv) > 2 THEN argv[3] ELSE DESCARGAS_TWITTER)
               /\ desc_calls[1].calidad = (IF Len(argv) > 3 THEN argv[4] ELSE BEST)
               /\ Len(dep_calls) <= 1
               /\ \A k \in DOMAIN dep_calls :
                     /\ dep_calls[k].op = "download"
                     /\ dep_calls[k].url = argv[2]
                     /\ dep_calls[k].outdir = desc_calls[1].carpeta
          ELSE /\ desc_calls = <<>>
               /\ dep_calls = <<>>
               /\ "uso" \in Range(out)
    /\ (~Cli /\ pc \notin {"start", "main"} /\ raised # "CalledProcessError") => everMenu

\* a valid URL alone among the arguments: one download with the defaults
C5_Witness ==
    /\ Len(argv) = 2
    /\ pc = "exit"
    /\ Len(desc_calls) = 1
    /\ desc_calls[1].carpeta = DESCARGAS_TWITTER
    /\ desc_calls[1].calidad = BEST
    /\ Len(dep_calls) = 1
    /\ ~everMenu

\* C6: nothing happens before the bootstrap is done (no validation, no menu,
\* no call); whatever happens after it happens with yt_dlp importable; a
\* failure of the installer ends the process at once, with no menu entered,
\* no call made and no second installation.
C6_BootstrapFirst ==
    /\ pc = "start" =>
          /\ ~everMenu
          /\ checked = <<>> /\ desc_calls = <<>> /\ dep_calls = <<>>
          /\ out = <<>>
    /\ (pc # "start" /\ raised # "CalledProcessError") => importable
    /\ raised = "CalledProcessError" =>
          /\ pc = "crashed"
          /\ ~importable
          /\ ~everMenu
          /\ checked = <<>> /\ desc_calls = <<>> /\ dep_calls = <<>>
          /\ out = <<"instalando">>
          /\ ~ENABLED Next

\* the installer has failed on a run that would have entered the menu
C6_Witness ==
    /\ raised = "CalledProcessError"
    /\ pc = "crashed"
    /\ ~Cli

FiveFormats == {BEST, WORST, F720, F480, F360}

\* the format expression the claim gives for a quality selector
FormatOfSelector(q) ==
    IF q = WORST THEN WORST
    ELSE IF q = Q720 THEN F720
    ELSE IF q = Q480 THEN F480
    ELSE IF q = Q360 THEN F360
    ELSE BEST

\* the quality selector the claim gives for a menu choice
SelectorOfChoice(c) ==
    IF c = <<"2">> THEN Q720
    ELSE IF c = <<"3">> THEN Q480
    ELSE IF c = <<"4">> THEN Q360
    ELSE IF c = <<"5">> THEN WORST
    ELSE BEST

\* the two maps of the program, entry by entry, and their defaults
C7_Tables ==
    /\ CalidadDe(<<"1">>) = BEST /\ CalidadDe(<<"2">>) = Q720 /\ CalidadDe(<<"3">>) = Q480
    /\ CalidadDe(<<"4">>) = Q360 /\ CalidadDe(<<"5">>) = WORST
    /\ \A l \in CalOpcionInputs :
          Strip(l) \notin {<<"1">>, <<"2">>, <<"3">>, <<"4">>, <<"5">>} => CalidadDe(Strip(l)) = BEST
    /\ Formato(BEST) = BEST /\ Formato(WORST) = WORST /\ Formato(Q720) = F720
    /\ Formato(Q480) = F480 /\ Formato(Q360) = F360
    /\ \A q \in CliCalidades \cup CalOpcionInputs :
          q \notin {BEST, WORST, Q720, Q480, Q360} => Formato(q) = BEST

\* C7: the menu choice maps "1".."5" to best/720/480/360/worst and anything
\* else to best; the selector maps best, worst, 720, 480, 360 to their format
\* expressions and anything else to "best"; every format handed to the
\* dependency is one of the five expressions, it is the one of the user's
\* input, and a batch download always uses "best".
C7_QualityMapping ==
    /\ C7_Tables
    /\ \A k \in Downloads : dep_calls[k].formato \in FiveFormats
    /\ opcion = <<"3">> => \A k \in Downloads : dep_calls[k].formato = BEST
    /\ opcion = <<"1">> =>
          \A k \in Downloads :
             dep_calls[k].formato = FormatOfSelector(SelectorOfChoice(cal_opcion))
    /\ Cli =>
          \A k \in Downloads :
             dep_calls[k].formato =
                FormatOfSelector(IF Len(argv) > 3 THEN argv[4] ELSE BEST)

\* an unknown quality argument has reached the dependency as "best"
C7_Witness ==
    /\ Len(argv) = 4
    /\ argv[4] = <<"1", "0", "8", "0">>
    /\ Len(dep_calls) = 1
    /\ dep_calls[1].formato = BEST

\* t is prefix \o path \o "/status/" \o digits \o rest for a prefix
\* http(s)://[www.](twitter.com|x.com)/, a non-empty path (characters of one
\* line) ending at offset a, and one or more digits (one digit after
\* "/status/" is enough: what follows it is more digits or the rest)
HasShape(t) ==
    \E sc \in {<<"h", "t", "t", "p">>, <<"h", "t", "t", "p", "s">>}, w \in {<<>>, <<"w", "w", "w", ".">>},
       h \in {<<"t", "w", "i", "t", "t", "e", "r", ".", "c", "o", "m">>, <<"x", ".", "c", "o", "m">>} :
       LET pre == sc \o <<":", "/", "/">> \o w \o h \o <<"/">>
           st  == <<"/", "s", "t", "a", "t", "u", "s", "/">>
       IN  /\ Len(pre) <= Len(t)
           /\ SubSeq(t, 1, Len(pre)) = pre
           /\ \E a \in (Len(pre) + 1)..Len(t) :
                 /\ a + Len(st) < Len(t)
                 /\ SubSeq(t, a + 1, a + Len(st)) = st
                 /\ \A k \in (Len(pre) + 1)..a : t[k] # "\n"
                 /\ IsDigit(t[a + Len(st) + 1])

\* C8: es_url_valida(s) is true exactly when s starts with
\* http(s)://[www.](twitter.com|x.com)/<non-empty path>/status/<digits>,
\* whatever follows the digits; the result is a boolean, nothing else
\* changes, and the four examples get the stated answers.
C8_Validator ==
    verdict # "unset" =>
       /\ verdict \in {"True", "False"}
       /\ verdict = "True" <=> HasShape(s)
       /\ s = <<"h", "t", "t", "p", "s", ":", "/", "/", "t", "w", "i", "t", "t", "e", "r", ".", "c", "o", "m", "/", "u", "s", "e", "r", "/", "s", "t", "a", "t", "u", "s", "/", "1", "2", "3", "4", "5">> => verdict = "True"
       /\ s = <<"h", "t", "t", "p", "s", ":", "/", "/", "x", ".", "c", "o", "m", "/", "u", "s", "e", "r", "/", "s", "t", "a", "t", "u", "s", "/", "9", "9", "9">> => verdict = "True"
       /\ s = <<"h", "t", "t", "p", "s", ":", "/", "/", "e", "x", "a", "m", "p", "l", "e", ".", "c", "o", "m", "/", "s", "t", "a", "t", "u", "s", "/", "1">> => verdict = "False"
       /\ s = <<"h", "t", "t", "p", "s", ":", "/", "/", "x", ".", "c", "o", "m", "/", "s", "t", "a", "t", "u", "s", "/", "a", "b", "c">> => verdict = "False"
       /\ fs = [p \in FsPaths |-> "absent"]
       /\ out = <<>> /\ dep_calls = <<>> /\ desc_calls = <<>>

\* a URL of the shape followed by more text has been accepted
C8_Witness ==
    /\ s = <<"h", "t", "t", "p", "s", ":", "/", "/", "x", ".", "c", "o", "m", "/", "u", "s", "e", "r", "/", "s", "t", "a", "t", "u", "s", "/", "9", "9", "9", "/", "p", "h", "o", "t", "o", "/", "1">>
    /\ verdict = "True"

\* C9: the dependency is invoked only with the destination directory in
\* place; a call of descargar_video that returns leaves the directory
\* existing; an absent destination is created unless one of its ancestors is
\* a regular file; and a call whose destination is already a directory (the
\* second of two calls with the same destination) does not fail on it.
C9_MkdirIdempotent ==
    /\ \A k \in Downloads : Kind(fs, dep_calls[k].outdir) = "dir"
    /\ \A k \in DOMAIN desc_calls :
          /\ desc_calls[k].raised = "none" => Kind(fs, desc_calls[k].carpeta) = "dir"
          /\ desc_calls[k].before = "dir" => desc_calls[k].raised = "none"
          /\ desc_calls[k].before = "absent" =>
                desc_calls[k].raised \in {"none", "NotADirectoryError"}
    /\ \A j \in DOMAIN desc_calls, k \in DOMAIN desc_calls :
          (j < k /\ desc_calls[j].carpeta = desc_calls[k].carpeta
                 /\ desc_calls[j].raised = "none") =>
             /\ desc_calls[k].before = "dir"
             /\ desc_calls[k].raised = "none"

\* two calls with the same destination, absent before the first
C9_Witness ==
    \E j \in DOMAIN desc_calls, k \in DOMAIN desc_calls :
       /\ j < k
       /\ desc_calls[j].carpeta = desc_calls[k].carpeta
       /\ desc_calls[j].before = "absent"
       /\ desc_calls[j].raised = "none"
       /\ desc_calls[k].before = "dir"
       /\ desc_calls[k].raised = "none"
       /\ Len(dep_calls) >= 2

\* C10 (as stated): every line of the collection that is not the sentinel
\* and does not pass the validator gets an "omitted" notice.
C10_Original ==
    opcion = <<"3">> =>
       /\ Asked(checked) = Trimmed(lines)
       /\ Count(out, "omitida") = Cardinality({k \in DOMAIN checked : ~checked[k].ok})

\* C10 (amended): a line is trimmed first; a trimmed line that is not empty,
\* is not the sentinel and does not pass the validator gets an "omitted"
\* notice, an empty one gets none, and neither is added to the collected
\* list, which holds the trimmed lines that pass the validator, in order;
\* the collection ends only when the sentinel (in any case) is read.
C10_Amended ==
    opcion = <<"3">> =>
       /\ Asked(checked) = Trimmed(lines)
       /\ \A k \in DOMAIN checked : checked[k].ok = es_url_valida(checked[k].url)
       /\ Count(out, "omitida")
             = Cardinality({k \in DOMAIN checked : checked[k].url # <<>> /\ ~checked[k].ok})
       /\ urls = Passed(checked)
       /\ \A k \in DOMAIN checked : ~EsCentinela(checked[k].url)
       /\ pc = "batch_collect" => ~EsCentinela(url)
       /\ (pc # "batch_collect" /\ desc_calls = <<>>) => EsCentinela(url)

\* a collection ended by " LISTO " after a blank line and an invalid URL
C10_Witness ==
    /\ opcion = <<"3">>
    /\ pc = "batch_carpeta"
    /\ BLANK \in Range(lines)
    /\ URL_BAD \in Range(lines)
    /\ Count(out, "omitida") = 1
    /\ url = <<"L", "I", "S", "T", "O">>

====
